---- MODULE Spec2Model ----
(***************************************************************************)
(* rt-navi: the per-satellite subframe assembler (ephemeris.rs), the       *)
(* satellite state cache (kepler.rs, clock.rs), the receiver tasklet and   *)
(* its serial device (ublox/), the solver loop (main.rs) and the parser of *)
(* NTRIP descriptions (ntrip.rs).                                          *)
(*                                                                         *)
(* Epochs are integer seconds of GPS time (week * 604800 + seconds of      *)
(* week).  Option<T> is a record: None, or Some(x) with field v.           *)
(***************************************************************************)
EXTENDS Integers, Sequences, FiniteSets, TLC

VARIABLES
    eph_buffer,       \* EphemerisBuffer.buffer: Vec<GpsSvEphemeris>
    overflow_checks,  \* build profile: TRUE = integer overflow panics (debug)
    panicked,         \* the thread running the assembler has panicked
    hist,             \* trace of the most recent update calls (observer only)
    kepler_buffer,    \* KeplerBuffer.buffer: RefCell<Vec<SVKepler>>
    clock_buffer,     \* ClockBuffer.buffer: Vec<SvClock>
    pc,               \* position of the thread that owns the caches
    pending,          \* argument of the latch call in progress
    latched,          \* per satellite: the values of its most recent latch (observer only)
    query,            \* the most recent query and its result (observer only)
    calc,             \* the most recent call of a computation: arguments and result
    tasklet           \* Ublox::tasklet: its locals; the packets and sends of its last cycle

vars == <<eph_buffer, overflow_checks, panicked, hist,
          kepler_buffer, clock_buffer, pc, pending, latched, query, calc,
          tasklet>>

ephVars == <<eph_buffer, overflow_checks, panicked, hist>>
cacheVars == <<kepler_buffer, clock_buffer, pc, pending, latched, query>>
calcVars == <<calc>>
taskVars == <<tasklet>>

---------------------------------------------------------------------------
(* Bounds and input domains *)

NumSv == 2
SVs == 1..NumSv

WeekModulus == 1024
SecondsPerWeek == 604800
U8 == 2^8
U32K == 2^22

None == [some |-> FALSE]
Some(x) == [some |-> TRUE, v |-> x]

EpochOf(week, tow) == week * SecondsPerWeek + tow

\* Epoch::default() (week 0), and two epochs of week 1025.
Epochs == {EpochOf(0, 0), EpochOf(1025, 0), EpochOf(1025, 5)}

Iodes == {1, 2}
Iodcs == {1, 258}            \* low-order 8 bits: 1 and 2
BroadcastWeeks == {1}        \* 10-bit week field of subframe 1
Tocs == {2}
Toes == {1}

\* Clock polynomial of subframe 1: af0 and the elapsed time in one unit, af1
\* a pure number, af2 per unit.
Af0Terms == {1}
Af1Terms == {0}
Af2Terms == {0}

Frame1s == [iodc : Iodcs, week : BroadcastWeeks, toc_s : Tocs,
            af0_s : Af0Terms, af1_s_s : Af1Terms, af2_s_s2 : Af2Terms]
Frame2s == [iode : Iodes, toe_s : Toes]
Frame3s == [iode : Iodes]

\* RxmSfrbxGpsQzssSubframe: Eph1 | Eph2 | Eph3
Subframes ==
    [tag : {"Eph1"}, f : Frame1s] \cup [tag : {"Eph2"}, f : Frame2s]
        \cup [tag : {"Eph3"}, f : Frame3s]

---------------------------------------------------------------------------
(* GpsSvEphemeris *)

NewEphemeris(sv) ==
    [sv |-> sv, state |-> "Collecting", frame1 |-> None, frame2 |-> None, frame3 |-> None]

\* is_complete without the test of the third slot.
is_complete_two_frames(eph) ==
    /\ eph.frame1.some
    /\ eph.frame2.some
    /\ eph.frame1.v.iodc % U8 = eph.frame2.v.iode

\* is_complete without the comparison of iodc with iode.
is_complete_without_iodc(eph) ==
    /\ eph.frame1.some
    /\ eph.frame2.some
    /\ eph.frame3.some
    /\ eph.frame2.v.iode = eph.frame3.v.iode

is_complete(eph) ==
    /\ eph.frame1.some
    /\ eph.frame2.some
    /\ eph.frame3.some
    /\ eph.frame2.v.iode = eph.frame3.v.iode
    /\ eph.frame1.v.iodc % U8 = eph.frame2.v.iode

\* week_number: u32 arithmetic.  ok = FALSE is a panic of a build with
\* overflow checks; without them the operations wrap modulo 2^32.  Values are
\* kept as multiples of 1024 plus a remainder (2^32 = U32K * 1024), so that
\* no intermediate exceeds the integers of the checker:
\*   delta    = (current_week - wn) mod 2^32
\*   rollover = round(delta / 1024)
\*   result   = (wn + rollover * 1024) mod 2^32
week_number(t_gpst, wn, checks) ==
    LET current_week == t_gpst \div SecondsPerWeek
        under == current_week < wn
        rollover == (IF under THEN U32K ELSE 0)
                      + ((2 * (current_week - wn) + WeekModulus) \div (2 * WeekModulus))
        over_mul == rollover >= U32K
        high == (rollover % U32K) + (wn \div WeekModulus)
        over_add == high >= U32K
    IN  IF checks /\ (under \/ over_mul \/ over_add)
        THEN [ok |-> FALSE, week |-> 0]
        ELSE [ok |-> TRUE, week |-> (high % U32K) * WeekModulus + (wn % WeekModulus)]

\* Option<Epoch>, or a panic (ok = FALSE).
toc_gpst(eph, t_gpst, checks) ==
    IF ~eph.frame1.some THEN [ok |-> TRUE, r |-> None]
    ELSE LET w == week_number(t_gpst, eph.frame1.v.week, checks)
         IN  IF ~w.ok THEN [ok |-> FALSE, r |-> None]
             ELSE [ok |-> TRUE, r |-> Some(EpochOf(w.week, eph.frame1.v.toc_s))]

toe_gpst(eph, t_gpst, checks) ==
    IF ~(eph.frame1.some /\ eph.frame2.some) THEN [ok |-> TRUE, r |-> None]
    ELSE LET w == week_number(t_gpst, eph.frame1.v.week, checks)
         IN  IF ~w.ok THEN [ok |-> FALSE, r |-> None]
             ELSE [ok |-> TRUE, r |-> Some(EpochOf(w.week, eph.frame2.v.toe_s))]

\* Storing a subframe into a fresh accumulator of the satellite.
StoreSubframeFresh(eph, subframe) ==
    LET new == [sv |-> eph.sv, state |-> "Collecting",
                frame1 |-> None, frame2 |-> None, frame3 |-> None]
    IN  CASE subframe.tag = "Eph1" -> [new EXCEPT !.frame1 = Some(subframe.f)]
          [] subframe.tag = "Eph2" -> [new EXCEPT !.frame2 = Some(subframe.f)]
          [] subframe.tag = "Eph3" -> [new EXCEPT !.frame3 = Some(subframe.f)]

StoreSubframe(eph, subframe) ==
    CASE subframe.tag = "Eph1" -> [eph EXCEPT !.frame1 = Some(subframe.f)]
      [] subframe.tag = "Eph2" -> [eph EXCEPT !.frame2 = Some(subframe.f)]
      [] subframe.tag = "Eph3" -> [eph EXCEPT !.frame3 = Some(subframe.f)]

\* update that turns Valid at t = toe already.
GpsUpdateAtOrAfter(eph, t, subframe, checks) ==
    CASE eph.state = "Collecting" ->
            LET stored == StoreSubframe(eph, subframe)
            IN  [ok |-> TRUE,
                 eph |-> IF is_complete(stored)
                         THEN [stored EXCEPT !.state = "Invalid"]
                         ELSE stored]
      [] eph.state = "Invalid" ->
            LET toe == toe_gpst(eph, t, checks)
            IN  IF ~toe.ok THEN [ok |-> FALSE, eph |-> eph]
                ELSE IF toe.r.some
                     THEN [ok |-> TRUE,
                           eph |-> IF t >= toe.r.v
                                   THEN [eph EXCEPT !.state = "Valid"]
                                   ELSE eph]
                     ELSE [ok |-> TRUE, eph |-> [eph EXCEPT !.state = "Collecting"]]
      [] eph.state = "Valid" ->
            LET toe == toe_gpst(eph, t, checks)
            IN  IF ~toe.ok THEN [ok |-> FALSE, eph |-> eph]
                ELSE IF toe.r.some
                     THEN [ok |-> TRUE, eph |-> eph]
                     ELSE [ok |-> TRUE, eph |-> [eph EXCEPT !.state = "Collecting"]]

\* GpsSvEphemeris::update: the accumulator after the call, or a panic.
GpsUpdate(eph, t, subframe, checks) ==
    CASE eph.state = "Collecting" ->
            LET stored == StoreSubframe(eph, subframe)
            IN  [ok |-> TRUE,
                 eph |-> IF is_complete(stored)
                         THEN [stored EXCEPT !.state = "Invalid"]
                         ELSE stored]
      [] eph.state = "Invalid" ->
            LET toe == toe_gpst(eph, t, checks)
            IN  IF ~toe.ok THEN [ok |-> FALSE, eph |-> eph]
                ELSE IF toe.r.some
                     THEN [ok |-> TRUE,
                           eph |-> IF t > toe.r.v
                                   THEN [eph EXCEPT !.state = "Valid"]
                                   ELSE eph]
                     ELSE [ok |-> TRUE, eph |-> [eph EXCEPT !.state = "Collecting"]]
      [] eph.state = "Valid" ->
            LET toe == toe_gpst(eph, t, checks)
            IN  IF ~toe.ok THEN [ok |-> FALSE, eph |-> eph]
                ELSE IF toe.r.some
                     THEN [ok |-> TRUE, eph |-> eph]
                     ELSE [ok |-> TRUE, eph |-> [eph EXCEPT !.state = "Collecting"]]

\* SVKepler::from_gps (the integral fields)
from_gps(sv, frame1, frame2, frame3) ==
    [sv |-> sv, week |-> frame1.week, toc |-> frame1.toc_s, toe |-> frame2.toe_s]

\* GpsSvEphemeris::to_kepler: Option<SVKepler>, or a panic.
to_kepler(eph, t_gpst, checks) ==
    IF is_complete(eph) THEN [ok |-> TRUE, r |-> None]
    ELSE IF ~(eph.frame1.some /\ eph.frame2.some /\ eph.frame3.some)
    THEN [ok |-> TRUE, r |-> None]
    ELSE LET toc == toc_gpst(eph, t_gpst, checks)
             toe == toe_gpst(eph, t_gpst, checks)
         IN  IF ~toc.ok \/ ~toe.ok THEN [ok |-> FALSE, r |-> None]
             ELSE IF toe.r.v < toc.r.v
                  THEN [ok |-> TRUE,
                        r |-> Some(from_gps(eph.sv, eph.frame1.v, eph.frame2.v,
                                            eph.frame3.v))]
                  ELSE [ok |-> TRUE, r |-> None]

\* a0 + a1 * dt + a2 * dt.powi(2)
ClockPolynomial(a0, a1, a2, dt) == a0 + dt * (a1 + a2 * dt)

ClockIterations == 10

\* for _ in 0..n { dt -= a0 + a1 * dt + a2 * dt.powi(2); }
RECURSIVE ClockIterate(_, _, _, _, _)
ClockIterate(a0, a1, a2, dt, n) ==
    IF n = 0 THEN dt
    ELSE ClockIterate(a0, a1, a2, dt - ClockPolynomial(a0, a1, a2, dt), n - 1)

\* clock_correction that takes the group delay off the correction.
GpsClockCorrectionWithDelay(eph, t, checks) ==
    IF is_complete(eph) THEN [ok |-> TRUE, r |-> None]
    ELSE IF ~eph.frame1.some THEN [ok |-> TRUE, r |-> None]
    ELSE LET toc == toc_gpst(eph, t, checks)
             a0 == eph.frame1.v.af0_s
             a1 == eph.frame1.v.af1_s_s
             a2 == eph.frame1.v.af2_s_s2
         IN  IF ~toc.ok THEN [ok |-> FALSE, r |-> None]
             ELSE LET dt0 == t - toc.r.v
                      dt == ClockIterate(a0, a1, a2, dt0, ClockIterations)
                  IN  [ok |-> TRUE,
                       r |-> Some([dt0 |-> dt0,
                                   dt |-> ClockPolynomial(a0, a1, a2, dt)
                                            - eph.frame1.v.tgd_s])]

\* GpsSvEphemeris::clock_correction: Option<ClockCorrection>, or a panic.
\* dt0 is the seed t - toc of the iteration, dt the duration of the
\* correction.
GpsClockCorrection(eph, t, checks) ==
    IF is_complete(eph) THEN [ok |-> TRUE, r |-> None]
    ELSE IF ~eph.frame1.some THEN [ok |-> TRUE, r |-> None]
    ELSE LET toc == toc_gpst(eph, t, checks)
             a0 == eph.frame1.v.af0_s
             a1 == eph.frame1.v.af1_s_s
             a2 == eph.frame1.v.af2_s_s2
         IN  IF ~toc.ok THEN [ok |-> FALSE, r |-> None]
             ELSE LET dt0 == t - toc.r.v
                      dt == ClockIterate(a0, a1, a2, dt0, ClockIterations)
                  IN  [ok |-> TRUE,
                       r |-> Some([dt0 |-> dt0,
                                   dt |-> ClockPolynomial(a0, a1, a2, dt)])]

---------------------------------------------------------------------------
(* EphemerisBuffer *)

\* Vec::iter().find(): of the indices whose element satisfies the predicate,
\* the first; 0 if there is none.
FindFirst(matching) ==
    IF matching = {} THEN 0
    ELSE CHOOSE i \in matching : \A j \in matching : i <= j

\* update that pushes a new accumulator whether or not one exists.
BufferUpdatePush(buf, t, sv, subframe, checks) ==
    [ok |-> TRUE, buf |-> Append(buf, StoreSubframe(NewEphemeris(sv), subframe))]

\* EphemerisBuffer::update: the buffer after the call, or a panic.
BufferUpdate(buf, t, sv, subframe, checks) ==
    LET i == FindFirst({n \in 1..Len(buf) : buf[n].sv = sv})
    IN  IF i # 0
        THEN LET u == GpsUpdate(buf[i], t, subframe, checks)
             IN  [ok |-> u.ok, buf |-> [buf EXCEPT ![i] = u.eph]]
        ELSE [ok |-> TRUE, buf |-> Append(buf, StoreSubframe(NewEphemeris(sv), subframe))]

\* EphemerisBuffer::clock_correction
BufferClockCorrection(buf, t, sv, checks) ==
    LET i == FindFirst({n \in 1..Len(buf) : buf[n].sv = sv /\ is_complete(buf[n])})
    IN  IF i # 0 THEN GpsClockCorrection(buf[i], t, checks)
        ELSE [ok |-> TRUE, r |-> None]

---------------------------------------------------------------------------
(* The assembler as driven by the decoding pipeline *)

\* Issue-of-data value a subframe carries (low-order 8 bits for subframe 1).
SubIod(subframe) ==
    IF subframe.tag = "Eph1" THEN subframe.f.iodc % U8 ELSE subframe.f.iode

\* The run of subframes delivered to one satellite back to back that can
\* belong to one ephemeris set: distinct variants, same issue of data.
ExtendsRun(sv, subframe) ==
    /\ hist.sv = sv
    /\ Len(hist.subs) < 3
    /\ \A k \in 1..Len(hist.subs) :
          /\ hist.subs[k].tag # subframe.tag
          /\ SubIod(hist.subs[k]) = SubIod(subframe)

EntryOf(buf, sv) ==
    LET i == FindFirst({n \in 1..Len(buf) : buf[n].sv = sv})
    IN  IF i = 0 THEN None ELSE Some(buf[i])

Observe(sv, subframe) ==
    [sv |-> sv,
     subs |-> IF ExtendsRun(sv, subframe) THEN Append(hist.subs, subframe)
              ELSE <<subframe>>,
     pre_complete |-> LET e == EntryOf(eph_buffer, sv)
                      IN  e.some /\ is_complete(e.v)]

\* One call eph_buffer.update(t, sv, frame) of the SFRBX handler.
EphUpdate(t, sv, subframe) ==
    /\ ~panicked
    /\ LET u == BufferUpdate(eph_buffer, t, sv, subframe, overflow_checks)
       IN  IF u.ok
           THEN eph_buffer' = u.buf /\ panicked' = FALSE
           ELSE panicked' = TRUE /\ UNCHANGED eph_buffer
    /\ UNCHANGED overflow_checks

\* update reads t only in the states Invalid and Valid (toe_gpst(t)); for a
\* satellite that is absent or Collecting every t gives the same call.
EpochsRead(sv) ==
    LET e == EntryOf(eph_buffer, sv)
    IN  IF e.some /\ e.v.state # "Collecting" THEN Epochs ELSE {EpochOf(0, 0)}

Update ==
    \E sv \in SVs, subframe \in Subframes :
        \E t \in EpochsRead(sv) :
            /\ EphUpdate(t, sv, subframe)
            /\ UNCHANGED <<hist, cacheVars, calcVars, taskVars>>

TracedUpdate ==
    \E sv \in SVs, subframe \in Subframes :
        \E t \in EpochsRead(sv) :
            /\ EphUpdate(t, sv, subframe)
            /\ hist' = Observe(sv, subframe)
            /\ UNCHANGED <<cacheVars, calcVars, taskVars>>

---------------------------------------------------------------------------
(* KeplerBuffer and ClockBuffer *)

KeplerToes == {1, 3}

\* Epochs of queries: the epochs of timestamped measurements (RXM-RAWX), in
\* weeks after the first rollover of the 10-bit week field.
QueryEpochs == {EpochOf(1025, 0), EpochOf(1025, 5), EpochOf(1026, 0)}
SVKeplers == [sv : SVs, week : BroadcastWeeks, toc : Tocs, toe : KeplerToes]
Af0s == {0, 1}
SvClocks == [sv : SVs, af0 : Af0s]

\* latch without the removal of the previous entry.
KeplerRetainAll(buf, sv) == buf

\* KeplerBuffer::latch, first statement: retain(|buf| buf.sv != kepler.sv)
KeplerRetain(buf, sv) ==
    LET Keep(b) == b.sv # sv
    IN  SelectSeq(buf, Keep)

\* push that starts the vector over with the new entry.
KeplerPushAlone(buf, kepler) == <<kepler>>

\* KeplerBuffer::latch, second statement: push(kepler)
KeplerPush(buf, kepler) == Append(buf, kepler)

\* next_at: t_k from the seconds of week of the query epoch and toe.
TimeFromToe(epoch, toe) ==
    LET t_tow_s == epoch % SecondsPerWeek
        t_k == t_tow_s - toe
    IN  IF 2 * t_k > SecondsPerWeek THEN t_k - SecondsPerWeek
        ELSE IF 2 * t_k < -SecondsPerWeek THEN t_k + SecondsPerWeek
        ELSE t_k

\* SVKepler::toe_gpst: the epoch of toe in the week resolved from the query
\* epoch, or a panic (ok = FALSE).
KeplerToeGpst(sv_data, t_gpst, checks) ==
    LET w == week_number(t_gpst, sv_data.week, checks)
    IN  IF ~w.ok THEN [ok |-> FALSE, r |-> 0]
        ELSE [ok |-> TRUE, r |-> EpochOf(w.week, sv_data.toe)]

\* KeplerBuffer::next_at: None without an entry for sv; otherwise the orbit,
\* represented by the entry it is computed from and t_k; or a panic (in
\* toe_gpst, whose value is only logged).
KeplerNextAt(buf, epoch, sv, checks) ==
    LET i == FindFirst({n \in 1..Len(buf) : buf[n].sv = sv})
    IN  IF i = 0 THEN [ok |-> TRUE, r |-> None]
        ELSE IF ~KeplerToeGpst(buf[i], epoch, checks).ok THEN [ok |-> FALSE, r |-> None]
        ELSE [ok |-> TRUE,
              r |-> Some([sv_data |-> buf[i], t_k |-> TimeFromToe(epoch, buf[i].toe)])]

\* latch that leaves a present entry as it is.
ClockLatchKeepFirst(buf, clock) ==
    IF \E i \in 1..Len(buf) : buf[i].sv = clock.sv THEN buf ELSE Append(buf, clock)

\* ClockBuffer::latch
ClockLatchBuffer(buf, clock) ==
    LET i == FindFirst({n \in 1..Len(buf) : buf[n].sv = clock.sv})
    IN  IF i # 0 THEN [buf EXCEPT ![i].af0 = clock.af0]
        ELSE Append(buf, clock)

\* clock_correction that answers with a zero correction without an entry.
ClockBufferCorrectionOrZero(buf, sv) ==
    LET i == FindFirst({n \in 1..Len(buf) : buf[n].sv = sv})
    IN  IF i = 0 THEN Some([dt |-> 0]) ELSE Some([dt |-> buf[i].af0])

\* ClockBuffer::clock_correction: the correction is the duration af0.
ClockBufferCorrection(buf, sv) ==
    LET i == FindFirst({n \in 1..Len(buf) : buf[n].sv = sv})
    IN  IF i = 0 THEN None ELSE Some([dt |-> buf[i].af0])

\* Calls on the cache that start while another one is in progress.
CallMayStartAnytime == TRUE

\* KeplerBuffer keeps its vector in a RefCell, so it is not Sync and every
\* call on it is made by the one thread that owns it: a call starts only
\* when no other call on the cache is in progress.
CallMayStart == pc = "idle"

\* Some entry for sv holds other values than v.
HoldsOther(buf, sv, v) == \E i \in 1..Len(buf) : buf[i].sv = sv /\ buf[i] # v

\* latch(kepler): self.buffer.borrow_mut().retain(..)
KeplerLatchRetain(kepler) ==
    /\ CallMayStart
    /\ kepler_buffer' = KeplerRetain(kepler_buffer, kepler.sv)
    /\ pending' = Some(kepler)
    /\ pc' = "latch_push"
    /\ latched' = [latched EXCEPT
                      !.rk = @ \/ HoldsOther(kepler_buffer, kepler.sv, kepler)]
    /\ UNCHANGED <<clock_buffer, query>>

\* latch(kepler): self.buffer.borrow_mut().push(kepler), and return
KeplerLatchPush ==
    /\ pc = "latch_push"
    /\ kepler_buffer' = KeplerPush(kepler_buffer, pending.v)
    /\ latched' = [latched EXCEPT !.kepler[pending.v.sv] = pending]
    /\ pending' = None
    /\ pc' = "idle"
    /\ UNCHANGED <<clock_buffer, query>>

\* next_at that takes the entry out of the buffer.
NextAtConsuming(epoch, sv) ==
    /\ CallMayStart
    /\ ~panicked
    /\ LET n == KeplerNextAt(kepler_buffer, epoch, sv, overflow_checks)
       IN  /\ panicked' = ~n.ok
           /\ query' = IF n.ok
                       THEN [op |-> "next_at", sv |-> sv, epoch |-> epoch, r |-> n.r,
                             expect |-> latched.kepler[sv]]
                       ELSE query
    /\ kepler_buffer' = KeplerRetain(kepler_buffer, sv)
    /\ UNCHANGED <<clock_buffer, pc, pending, latched, overflow_checks>>

\* next_at(epoch, sv, frame): the buffer is borrowed immutably.
NextAt(epoch, sv) ==
    /\ CallMayStart
    /\ ~panicked
    /\ LET n == KeplerNextAt(kepler_buffer, epoch, sv, overflow_checks)
       IN  /\ panicked' = ~n.ok
           /\ query' = IF n.ok
                       THEN [op |-> "next_at", sv |-> sv, epoch |-> epoch, r |-> n.r,
                             expect |-> latched.kepler[sv]]
                       ELSE query
    /\ UNCHANGED <<kepler_buffer, clock_buffer, pc, pending, latched, overflow_checks>>

ClockLatch(clock) ==
    /\ CallMayStart
    /\ clock_buffer' = ClockLatchBuffer(clock_buffer, clock)
    /\ latched' = [latched EXCEPT
                      !.clock[clock.sv] = Some(clock),
                      !.rc = @ \/ HoldsOther(clock_buffer, clock.sv, clock)]
    /\ UNCHANGED <<kepler_buffer, pc, pending, query>>

LatchKepler ==
    \E kepler \in SVKeplers : KeplerLatchRetain(kepler) /\ UNCHANGED <<ephVars, calcVars, taskVars>>
FinishLatchKepler == KeplerLatchPush /\ UNCHANGED <<ephVars, calcVars, taskVars>>
QueryOrbit ==
    \E epoch \in QueryEpochs, sv \in SVs :
        NextAt(epoch, sv) /\ UNCHANGED <<eph_buffer, hist, calcVars, taskVars>>
LatchClock == \E clock \in SvClocks : ClockLatch(clock) /\ UNCHANGED <<ephVars, calcVars, taskVars>>

---------------------------------------------------------------------------
(* The assembler fed with the frames of one ephemeris set that carry the
   clock terms and the group delay *)

GroupDelays == {0, 2}

\* Frame1{week = 2190, toc = 0, af0 = 1.0e-5 s, af1 = 0, af2 = 0}, af0 in
\* units of 1.0e-5 s (with af1 = af2 = 0 the unit of the elapsed time does
\* not enter the correction); the group delay in the same unit.
ScenarioFrame1(tgd) ==
    [iodc |-> 5, week |-> 2190, toc_s |-> 0,
     af0_s |-> 1, af1_s_s |-> 0, af2_s_s2 |-> 0, tgd_s |-> tgd]

\* Frame2{iode = 5, toe = 0, ..}, Frame3{iode = 5, ..}
ScenarioSubframes ==
    {[tag |-> "Eph1", f |-> ScenarioFrame1(g)] : g \in GroupDelays}
        \cup {[tag |-> "Eph2", f |-> [iode |-> 5, toe_s |-> 0]],
              [tag |-> "Eph3", f |-> [iode |-> 5]]}

\* Epoch::default(), the epoch of toc and toe, and a later one.
ScenarioEpochs == {EpochOf(0, 0), EpochOf(2190, 0), EpochOf(2190, 7)}

ScenarioEpochsRead(sv) ==
    LET e == EntryOf(eph_buffer, sv)
    IN  IF e.some /\ e.v.state # "Collecting" THEN ScenarioEpochs ELSE {EpochOf(0, 0)}

ScenarioUpdate ==
    \E sv \in SVs, subframe \in ScenarioSubframes :
        \E t \in ScenarioEpochsRead(sv) :
            /\ EphUpdate(t, sv, subframe)
            /\ UNCHANGED <<hist, cacheVars, calcVars, taskVars>>

\* EphemerisBuffer::tgd(sv), called by the RXM-RAWX handler and defined
\* nowhere in the sources: the broadcast group delay of the satellite.
BufferTgd(buf, sv) ==
    LET i == FindFirst({n \in 1..Len(buf) : buf[n].sv = sv /\ buf[n].frame1.some})
    IN  IF i = 0 THEN None ELSE Some(buf[i].frame1.v.tgd_s)

---------------------------------------------------------------------------
(* The computations, called with arguments drawn from bounded sets *)

\* Weeks of the epoch passed in, and 10-bit week fields of subframe 1.
ObservedWeeks == {511, 1024, 1500, 1535, 1536, 2190, 2600, 3000}
WeekFields == {0, 1, 511, 512, 1023}

\* week_number(t_gpst, wn)
\* `current_week - wn as u32` is below zero.
WeekDeltaWraps(t_gpst, wn) == t_gpst \div SecondsPerWeek < wn

\* Week fields met at Epoch::default(), before a measurement is timestamped.
DefaultEpochFields == {1, 512}
WeekNumberInputs ==
    (ObservedWeeks \X WeekFields) \cup ({0} \X DefaultEpochFields)

WeekNumberCall ==
    /\ \E in \in WeekNumberInputs :
          LET observed == in[1]
              wn == in[2]
          IN  calc' = [op |-> "week_number", observed |-> observed, wn |-> wn,
                       wraps |-> WeekDeltaWraps(EpochOf(observed, 0), wn),
                       out |-> week_number(EpochOf(observed, 0), wn,
                                           overflow_checks)]
    /\ UNCHANGED <<ephVars, cacheVars, taskVars>>

\* (af0, af1, af2)
ClockPolynomials ==
    {<<0, 0, 0>>, <<1, 0, 0>>, <<3, 0, 0>>, <<0, 1, 0>>, <<1, 1, 0>>, <<1, 2, 0>>,
     <<0, -1, 1>>}

ClockFrame1(p) ==
    [iodc |-> 1, week |-> 1, toc_s |-> 2,
     af0_s |-> p[1], af1_s_s |-> p[2], af2_s_s2 |-> p[3]]

\* The accumulator after update with subframe 1 of polynomial p, then with
\* the first n - 1 of subframes 2 and 3 of the same issue of data.
ClockEph(p, n, checks) ==
    LET e1 == StoreSubframe(NewEphemeris(1), [tag |-> "Eph1", f |-> ClockFrame1(p)])
        e2 == GpsUpdate(e1, EpochOf(0, 0),
                        [tag |-> "Eph2", f |-> [iode |-> 1, toe_s |-> 1]], checks).eph
        e3 == GpsUpdate(e2, EpochOf(0, 0), [tag |-> "Eph3", f |-> [iode |-> 1]], checks).eph
    IN  CASE n = 1 -> e1 [] n = 2 -> e2 [] n = 3 -> e3

ClockEpochs == {EpochOf(1025, 2), EpochOf(1025, 3), EpochOf(1025, 4)}

\* GpsSvEphemeris::clock_correction(t)
ClockCorrectionCall ==
    /\ \E p \in ClockPolynomials, n \in 1..3, t \in ClockEpochs :
          LET eph == ClockEph(p, n, overflow_checks)
          IN  calc' = [op |-> "clock_correction", eph |-> eph, t |-> t,
                       out |-> GpsClockCorrection(eph, t, overflow_checks)]
    /\ UNCHANGED <<ephVars, cacheVars, taskVars>>

\* Angles that are whole quarter turns, where sine and cosine are exact.
QuarterTurns == 0..3

\* sin and cos of q quarter turns
Sin4(q) == CASE q % 4 = 0 -> 0 [] q % 4 = 1 -> 1 [] q % 4 = 2 -> 0 [] q % 4 = 3 -> -1
Cos4(q) == Sin4(q + 1)

KeplerIterations == 30

\* for _ in 0..n { e_k = m + e * e_k_lst.sin(); e_k_lst = e_k; }
\* Angles in quarter turns; e in units of a quarter turn's radians.
RECURSIVE KeplerIterate(_, _, _, _)
KeplerIterate(m, e, e_k_lst, n) ==
    IF n = 0 THEN e_k_lst
    ELSE KeplerIterate(m, e, m + e * Sin4(e_k_lst), n - 1)

\* next_at from the mean anomaly on: the orbit returned, represented by the
\* eccentric anomaly it is computed from.
OrbitFromMeanAnomaly(m, e) == Some([e_k |-> KeplerIterate(m, e, 0, KeplerIterations)])

Eccentricities == {0, 1}

KeplerEquationCall ==
    /\ \E m \in QuarterTurns, e \in Eccentricities :
          calc' = [op |-> "kepler_equation", m |-> m, e |-> e,
                   out |-> OrbitFromMeanAnomaly(m, e)]
    /\ UNCHANGED <<ephVars, cacheVars, taskVars>>

MetresPerKm == 1000

\* Orbital-plane coordinates, metres.
OrbitalCoordinates == {0, 1000, -2000}

\* next_at, from (x_orb, y_orb), i and omega to the position in km.
Rotate(x_orb, y_orb, i, omega) ==
    LET sin_i == Sin4(i)
        cos_i == Cos4(i)
        sin_omega == Sin4(omega)
        cos_omega == Cos4(omega)
        x == x_orb * cos_omega - y_orb * cos_i * sin_omega
        y == x_orb * sin_omega - y_orb * cos_i * cos_omega
        z == y_orb * sin_omega
    IN  [x_km |-> x \div MetresPerKm, y_km |-> y \div MetresPerKm,
         z_km |-> z \div MetresPerKm]

RotationCall ==
    /\ \E x_orb \in OrbitalCoordinates, y_orb \in OrbitalCoordinates,
          i \in QuarterTurns, omega \in QuarterTurns :
          calc' = [op |-> "rotation", x_orb |-> x_orb, y_orb |-> y_orb, i |-> i,
                   omega |-> omega, out |-> Rotate(x_orb, y_orb, i, omega)]
    /\ UNCHANGED <<ephVars, cacheVars, taskVars>>

---------------------------------------------------------------------------
(* Device: the serial port and the packet parser (ublox/device.rs) *)

\* std::io::Error: its kind and the payload that tells two errors apart.
IoErrorKinds == {"TimedOut", "BrokenPipe", "PermissionDenied"}
IoErrors == [kind : IoErrorKinds, os : {5, 32}]

Ok(v) == [ok |-> TRUE, v |-> v]
Err(e) == [ok |-> FALSE, e |-> e]

\* read_port that reports every error as "no data received".
read_port_lenient(res) ==
    IF res.ok THEN Ok(res.v) ELSE Ok(0)

\* Device::read_port, on the outcome res of port.read(output).
read_port(res) ==
    IF res.ok THEN Ok(res.v)
    ELSE IF res.e.kind = "TimedOut" THEN Ok(0)
    ELSE Err(res.e)

\* What the parser yields from the bytes of one read: packets, and errors
\* for malformed ones.
Parsed(packet) == [wf |-> TRUE, packet |-> packet]
Malformed == [wf |-> FALSE]
IsWellFormed(item) == item.wf

\* The packets of a buffer up to its first malformed one.
PacketsUntilMalformed(items) ==
    LET bad == FindFirst({n \in 1..Len(items) : ~items[n].wf})
        good == IF bad = 0 THEN items ELSE SubSeq(items, 1, bad - 1)
    IN  [k \in 1..Len(good) |-> good[k].packet]

PacketsOf(items) ==
    LET good == SelectSeq(items, IsWellFormed)
    IN  [k \in 1..Len(good) |-> good[k].packet]

\* One outcome of port.read(): Ok(nbytes) with the items parsed from the
\* bytes, or an error.  A port with nothing more to deliver times out.
ReadOk(nbytes, items) == [ok |-> TRUE, v |-> nbytes, items |-> items]
PortRead(reads) ==
    IF reads = <<>> THEN Err([kind |-> "TimedOut", os |-> 5]) ELSE Head(reads)

\* Device::process (on_data_available): the result, and the packets passed
\* to the handler in order.
RECURSIVE process(_, _)
process(reads, handled) ==
    LET nbytes == read_port(PortRead(reads))
    IN  IF ~nbytes.ok THEN [ok |-> FALSE, e |-> nbytes.e, handled |-> handled]
        ELSE IF nbytes.v = 0 THEN [ok |-> TRUE, handled |-> handled]
        ELSE process(Tail(reads), handled \o PacketsOf(Head(reads).items))

MaxPayloadLen == 1240

\* Outcomes of one port read, and the runs of reads given to process.
InfNotice == [kind |-> "InfNotice"]
MonVer == [kind |-> "MonVer"]
PortResults ==
    {ReadOk(0, <<>>)}
        \cup {ReadOk(n, items) :
                n \in {8, MaxPayloadLen},
                items \in {<<>>, <<Parsed(MonVer)>>,
                           <<Parsed(InfNotice), Malformed, Parsed(MonVer)>>}}
        \cup {Err(e) : e \in IoErrors}
ReadRuns ==
    {<<>>} \cup {<<a>> : a \in PortResults}
        \cup {<<a, b>> : a \in PortResults, b \in PortResults}

ReadPortCall ==
    /\ \E res \in PortResults :
          calc' = [op |-> "read_port", res |-> res, r |-> read_port(res)]
    /\ UNCHANGED <<ephVars, cacheVars, taskVars>>

ProcessCall ==
    /\ \E reads \in ReadRuns :
          calc' = [op |-> "process", reads |-> reads, r |-> process(reads, <<>>)]
    /\ UNCHANGED <<ephVars, cacheVars, taskVars>>

\* UBX-ACK-ACK carries the class and the message id of the message it
\* acknowledges.
AckAck(class, id) == [kind |-> "AckAck", class |-> class, id |-> id]

\* The closure of wait_for_ack, over the packets of one on_data_available
\* call: found_packet is set by an AckAck of T's class and message id.
Acknowledges(handled, T) ==
    \E k \in 1..Len(handled) :
        /\ handled[k].kind = "AckAck"
        /\ handled[k].class = T.class
        /\ handled[k].id = T.id

\* Device::wait_for_ack::<T>. Each element of cycles is one turn of the
\* while loop: the reads its on_data_available call makes and the
\* milliseconds elapsed since start when it returns. `returned` is FALSE
\* while the loop is still waiting after the last of the cycles.
AckTimeoutMillis == 3000
RECURSIVE wait_for_ack(_, _)
wait_for_ack(T, cycles) ==
    IF cycles = <<>> THEN [returned |-> FALSE]
    ELSE LET r == process(Head(cycles).reads, <<>>)
             found_packet == Acknowledges(r.handled, T)
         IN  IF ~r.ok THEN [returned |-> TRUE, ok |-> FALSE, e |-> r.e]
             ELSE IF Head(cycles).elapsed > AckTimeoutMillis
                  THEN [returned |-> TRUE, ok |-> TRUE]
             ELSE IF found_packet THEN [returned |-> TRUE, ok |-> TRUE]
             ELSE wait_for_ack(T, Tail(cycles))

\* The port delivers nothing, the acknowledgement of CfgRate (class 0x06,
\* id 0x08), an acknowledgement of another id or of another class, the
\* negative acknowledgement of CfgRate, or fails.
AckCycles ==
    LET runs == {<<>>, <<Err([kind |-> "BrokenPipe", os |-> 32])>>}
                    \cup {<<ReadOk(8, <<Parsed(p)>>)>> :
                            p \in {AckAck(6, 8), AckAck(6, 1), AckAck(10, 8),
                                   [kind |-> "AckNak", class |-> 6, id |-> 8]}}
        one == [reads : runs, elapsed : {0, AckTimeoutMillis, AckTimeoutMillis + 1}]
    IN  {<<c>> : c \in one}
            \cup {cs \in {<<c, d>> : c \in one, d \in one} :
                        cs[2].elapsed >= cs[1].elapsed}

\* self.device.wait_for_ack::<CfgRate>()
WaitForAckCall ==
    /\ \E cycles \in AckCycles, T \in {[class |-> 6, id |-> 8]} :
          calc' = [op |-> "wait_for_ack", T |-> T, cycles |-> cycles,
                   r |-> wait_for_ack(T, cycles)]
    /\ UNCHANGED <<ephVars, cacheVars, taskVars>>

---------------------------------------------------------------------------
(* Ublox::tasklet (ublox/mod.rs) *)

gnss_rtk_id(gnss_id) ==
    CASE gnss_id = 0 -> Some("GPS")
      [] gnss_id = 1 -> Some("SBAS")
      [] gnss_id = 2 -> Some("Galileo")
      [] gnss_id = 3 -> Some("BeiDou")
      [] gnss_id = 5 -> Some("QZSS")
      [] gnss_id = 6 -> Some("Glonass")
      [] OTHER -> None

\* SV::new(constellation, prn)
SvOf(constellation, prn) == [constellation |-> constellation, prn |-> prn]

\* Candidate::new(sv, t, vec![Observation::pseudo_range(L1, pr, None)])
NewCandidate(sv, t, pr) ==
    [sv |-> sv, t |-> t, pr |-> pr, clock_correction |-> None, tgd |-> None]

\* The locals of the tasklet as the packet handler sees them: ok is FALSE
\* once a call has panicked; outbox and reported are the sends and the error
\* reports of the cycle so far.
TaskletLocals(latest_t, buf, candidates) ==
    [ok |-> TRUE, latest_t |-> latest_t, eph_buffer |-> buf,
     candidates |-> candidates, outbox |-> <<>>, reported |-> <<>>]

\* The body of `for meas in rawx.measurements()`, for one measurement.
OnMeasurement(st, t_gpst, meas, checks) ==
    LET constell == gnss_rtk_id(meas.gnss_id)
    IN  IF ~constell.some
        THEN [st EXCEPT !.reported = Append(@, meas.gnss_id)]
        ELSE LET sv == SvOf(constell.v, meas.sv_id)
                 i == FindFirst({n \in 1..Len(st.candidates) :
                                    st.candidates[n].sv = sv})
                 corr == BufferClockCorrection(st.eph_buffer, t_gpst, sv, checks)
                 tgd == BufferTgd(st.eph_buffer, sv)
                 cd == IF i # 0 THEN [st.candidates[i] EXCEPT !.pr = meas.pr_mes]
                       ELSE NewCandidate(sv, t_gpst, meas.pr_mes)
                 cd_corr == IF corr.r.some
                            THEN [cd EXCEPT !.clock_correction = corr.r] ELSE cd
                 cd_tgd == IF tgd.some THEN [cd_corr EXCEPT !.tgd = tgd]
                           ELSE cd_corr
             IN  IF ~corr.ok THEN [st EXCEPT !.ok = FALSE]
                 ELSE [st EXCEPT !.candidates =
                           IF i # 0 THEN [@ EXCEPT ![i] = cd_tgd]
                           ELSE Append(@, cd_tgd)]

\* The measurement loop leaving at the first unsupported constellation.
RECURSIVE OnMeasurementsUntilUnsupported(_, _, _, _)
OnMeasurementsUntilUnsupported(st, t_gpst, measurements, checks) ==
    IF measurements = <<>> \/ ~st.ok THEN st
    ELSE IF ~gnss_rtk_id(Head(measurements).gnss_id).some
    THEN OnMeasurement(st, t_gpst, Head(measurements), checks)
    ELSE OnMeasurementsUntilUnsupported(
             OnMeasurement(st, t_gpst, Head(measurements), checks),
             t_gpst, Tail(measurements), checks)

\* for meas in rawx.measurements() { .. }
RECURSIVE OnMeasurements(_, _, _, _)
OnMeasurements(st, t_gpst, measurements, checks) ==
    IF measurements = <<>> \/ ~st.ok THEN st
    ELSE OnMeasurements(OnMeasurement(st, t_gpst, Head(measurements), checks),
                        t_gpst, Tail(measurements), checks)

\* The RAWX handler without candidates.clear().
OnRawxKeeping(st, rawx, checks) ==
    LET t_gpst == EpochOf(rawx.week, rawx.rcv_tow)
    IN  OnMeasurements([st EXCEPT !.latest_t = t_gpst],
                       t_gpst, rawx.measurements, checks)

\* UbxPacketRef::RxmRawx
OnRawx(st, rawx, checks) ==
    LET t_gpst == EpochOf(rawx.week, rawx.rcv_tow)
    IN  OnMeasurements([st EXCEPT !.latest_t = t_gpst, !.candidates = <<>>],
                       t_gpst, rawx.measurements, checks)

\* The SFRBX handler passing on the frames of every known constellation.
OnSfrbxAnyConstellation(st, sfrbx, checks) ==
    LET constellation == gnss_rtk_id(sfrbx.gnss_id)
    IN  IF constellation.some /\ sfrbx.interpreted.some
        THEN LET u == BufferUpdate(st.eph_buffer, st.latest_t,
                                   SvOf(constellation.v, sfrbx.sv_id),
                                   sfrbx.interpreted.v, checks)
             IN  [st EXCEPT !.ok = u.ok, !.eph_buffer = u.buf]
        ELSE st

\* UbxPacketRef::RxmSfrbx.  The handler passes the satellite and the frame;
\* the epoch update() takes is the tasklet's latest_t.
OnSfrbx(st, sfrbx, checks) ==
    LET constellation == gnss_rtk_id(sfrbx.gnss_id)
    IN  IF constellation.some /\ constellation.v \in {"GPS", "QZSS"}
            /\ sfrbx.interpreted.some
        THEN LET u == BufferUpdate(st.eph_buffer, st.latest_t,
                                   SvOf(constellation.v, sfrbx.sv_id),
                                   sfrbx.interpreted.v, checks)
             IN  [st EXCEPT !.ok = u.ok, !.eph_buffer = u.buf]
        ELSE st

\* The closure given to on_data_available.
OnPacket(st, packet, checks) ==
    CASE packet.kind = "RxmRawx" -> OnRawx(st, packet, checks)
      [] packet.kind = "RxmSfrbx" -> OnSfrbx(st, packet, checks)
      [] OTHER -> st

RECURSIVE OnPackets(_, _, _)
OnPackets(st, packets, checks) ==
    IF packets = <<>> \/ ~st.ok THEN st
    ELSE OnPackets(OnPacket(st, Head(packets), checks), Tail(packets), checks)

\* self.tx.send(msg).await: the sends of a cycle whose position is in
\* `failed` return an error, which is logged.
Send(st, msg, failed) ==
    [st EXCEPT !.outbox =
         Append(@, [msg |-> msg, delivered |-> (Len(@) + 1) \notin failed])]

\* The Proposal send without candidates.clear().
SendProposalKeeping(st, failed) ==
    IF st.ok /\ Len(st.candidates) > 0
    THEN Send(st, [type |-> "Proposal", candidates |-> st.candidates], failed)
    ELSE st

\* A failed send that ends the tasklet.
SendProposalOrStop(st, failed) ==
    IF st.ok /\ Len(st.candidates) > 0
    THEN [Send(st, [type |-> "Proposal", candidates |-> st.candidates], failed)
             EXCEPT !.candidates = <<>>,
                    !.ok = (Len(st.outbox) + 1) \notin failed]
    ELSE st

\* if candidates.len() > 0 { send(Proposal(candidates.clone())); candidates.clear(); }
SendProposal(st, failed) ==
    IF st.ok /\ Len(st.candidates) > 0
    THEN [Send(st, [type |-> "Proposal", candidates |-> st.candidates], failed)
             EXCEPT !.candidates = <<>>]
    ELSE st

\* GpsSvEphemeris::validate(), called by the tasklet and defined nowhere in
\* the sources: the snapshot of an accumulator whose three slots are
\* populated and satisfy the consistency invariant.
validate(eph) ==
    IF /\ eph.frame1.some /\ eph.frame2.some /\ eph.frame3.some
       /\ eph.frame2.v.iode = eph.frame3.v.iode
       /\ eph.frame1.v.iodc % U8 = eph.frame2.v.iode
    THEN Some(eph)
    ELSE None

\* for eph in eph_buffer.buffer.iter() { if let Some(validated) =
\* eph.validate() { send(Kepler(validated.to_kepler(latest_t))) } }, from
\* entry i on.  A Kepler message carries an SVKepler: there is one to send
\* when to_kepler returns one.
RECURSIVE SendKeplers(_, _, _, _)
SendKeplers(st, i, failed, checks) ==
    IF i > Len(st.eph_buffer) \/ ~st.ok THEN st
    ELSE LET validated == validate(st.eph_buffer[i])
         IN  IF ~validated.some THEN SendKeplers(st, i + 1, failed, checks)
             ELSE LET keplerian == to_kepler(validated.v, st.latest_t, checks)
                  IN  IF ~keplerian.ok THEN [st EXCEPT !.ok = FALSE]
                      ELSE IF ~keplerian.r.some
                      THEN SendKeplers(st, i + 1, failed, checks)
                      ELSE SendKeplers(
                               Send(st, [type |-> "Kepler",
                                         kepler |-> keplerian.r.v], failed),
                               i + 1, failed, checks)

\* One iteration of the tasklet's loop.  An error of on_data_available is
\* logged; the packets handled before it have taken effect.
TaskletCycle(st, reads, failed, checks) ==
    SendKeplers(SendProposal(OnPackets(st, process(reads, <<>>).handled, checks),
                             failed),
                1, failed, checks)

\* Packets the receiver delivers.
Measurement(gnss_id, sv_id, pr_mes) ==
    [gnss_id |-> gnss_id, sv_id |-> sv_id, pr_mes |-> pr_mes]
Rawx(rcv_tow, measurements) ==
    [kind |-> "RxmRawx", week |-> 2190, rcv_tow |-> rcv_tow,
     measurements |-> measurements]
Sfrbx(gnss_id, sv_id, interpreted) ==
    [kind |-> "RxmSfrbx", gnss_id |-> gnss_id, sv_id |-> sv_id,
     interpreted |-> interpreted]

\* Measurements of GPS 1 and QZSS 1 around one of an unsupported
\* constellation; of an unsupported constellation alone; of GPS 1 twice.
MixedRawx == Rawx(0, <<Measurement(0, 1, 20), Measurement(4, 1, 21),
                       Measurement(5, 1, 22)>>)
UnsupportedRawx == Rawx(0, <<Measurement(4, 1, 21)>>)
RepeatedRawx == Rawx(7, <<Measurement(0, 1, 20), Measurement(0, 1, 23)>>)
RawxPackets == {MixedRawx, UnsupportedRawx, RepeatedRawx}

TaskletSubframes ==
    {[tag |-> "Eph1", f |-> ScenarioFrame1(2)],
     [tag |-> "Eph2", f |-> [iode |-> 5, toe_s |-> 0]],
     [tag |-> "Eph3", f |-> [iode |-> 5]],
     [tag |-> "Eph3", f |-> [iode |-> 6]]}
GpsSfrbxPackets == {Sfrbx(0, 1, Some(f)) : f \in TaskletSubframes}
SfrbxPackets ==
    GpsSfrbxPackets
        \cup {Sfrbx(5, 1, Some([tag |-> "Eph2", f |-> [iode |-> 5, toe_s |-> 0]])),
              Sfrbx(0, 1, None),
              Sfrbx(2, 1, Some([tag |-> "Eph3", f |-> [iode |-> 5]])),
              Sfrbx(4, 1, Some([tag |-> "Eph3", f |-> [iode |-> 5]]))}

TaskletPackets == RawxPackets \cup SfrbxPackets \cup {InfNotice}

\* The reads of one cycle: nothing; one read of one packet; one read of a
\* RAWX followed by another packet; a read followed by an error.
TaskletReads ==
    {<<>>}
        \cup {<<ReadOk(8, <<Parsed(p)>>)>> : p \in TaskletPackets}
        \cup {<<ReadOk(8, <<Parsed(MixedRawx), Parsed(q)>>)>> :
                q \in {RepeatedRawx, UnsupportedRawx,
                       Sfrbx(0, 1, Some([tag |-> "Eph3", f |-> [iode |-> 5]]))}}
        \cup {<<ReadOk(8, <<Parsed(MixedRawx), Malformed>>),
                Err([kind |-> "BrokenPipe", os |-> 32])>>}

\* Positions, among the sends of a cycle, of those that fail.
SendFailures == {{}, {1}, {1, 2}}

\* What the observer keeps of a packet given to the handler: its kind, the
\* epoch of a RAWX and whether it has a measurement of a supported
\* constellation, the constellation id of an SFRBX and whether it was
\* interpreted.
DecodedPacket(packet) ==
    CASE packet.kind = "RxmRawx" ->
             [kind |-> "RxmRawx", t |-> EpochOf(packet.week, packet.rcv_tow),
              supported |-> \E k \in 1..Len(packet.measurements) :
                               gnss_rtk_id(packet.measurements[k].gnss_id).some]
      [] packet.kind = "RxmSfrbx" ->
             [kind |-> "RxmSfrbx", gnss_id |-> packet.gnss_id,
              interpreted |-> packet.interpreted.some]
      [] OTHER -> [kind |-> packet.kind]
Decoded(packets) == [k \in 1..Len(packets) |-> DecodedPacket(packets[k])]

Cycle ==
    /\ ~panicked
    /\ \E reads \in TaskletReads, failed \in SendFailures :
          LET st == TaskletCycle(TaskletLocals(tasklet.latest_t, eph_buffer,
                                               tasklet.candidates),
                                 reads, failed, overflow_checks)
          IN  /\ panicked' = ~st.ok
              /\ eph_buffer' = st.eph_buffer
              /\ tasklet' = [latest_t |-> st.latest_t, candidates |-> st.candidates,
                             outbox |-> st.outbox, reported |-> st.reported,
                             decoded |-> Decoded(process(reads, <<>>).handled)]
    /\ UNCHANGED <<overflow_checks, hist, cacheVars, calcVars>>

---------------------------------------------------------------------------
(* main: the loop that consumes the channel (main.rs) *)

InvalidationCauses ==
    {"FirstSolution", "GDOPOutlier", "TDOPOutlier", "InnovationOutlier",
     "CodeResidual"}

\* gnss_rtk::Error, as matched by main.
RTKErrors ==
    {[e |-> v] :
        v \in {"Almanac", "NotEnoughCandidates", "NotEnoughMatchingCandidates",
               "MatrixError", "NavigationError", "MatrixInversionError",
               "MissingPseudoRange", "PseudoRangeCombination",
               "PhaseRangeCombination", "UnresolvedState", "UnresolvedAmbiguity",
               "InvalidStrategy", "BancroftError", "BancroftImaginarySolution",
               "FirstGuess", "TimeIsNan", "PhysicalNonSenseRxPriorTx",
               "PhysicalNonSenseRxTooLate", "Physics"}}
        \cup {[e |-> "InvalidatedSolution", cause |-> c] : c \in InvalidationCauses}

\* Outcomes of solver.resolve(t, &candidates, ..).
ResolveOutcomes == {[ok |-> TRUE]} \cup {Err(e) : e \in RTKErrors}

Logged(levels) == [panicked |-> FALSE, logged |-> levels]

\* The arm Message::Candidates of the loop, on the outcome of resolve: the
\* levels of the lines it logs, or a panic.
OnCandidates(outcome) ==
    IF outcome.ok THEN Logged(<<"info", "info", "info", "info">>)
    ELSE LET e == outcome.e.e
         IN  CASE e = "Almanac" -> [panicked |-> TRUE, logged |-> <<>>]
               [] e \in {"NotEnoughCandidates", "NotEnoughMatchingCandidates",
                         "MissingPseudoRange", "PseudoRangeCombination",
                         "PhaseRangeCombination", "UnresolvedState",
                         "UnresolvedAmbiguity", "InvalidStrategy"} ->
                      Logged(<<"error">>)
               [] e = "InvalidatedSolution" ->
                      IF outcome.e.cause = "FirstSolution" THEN Logged(<<"info">>)
                      ELSE Logged(<<"error">>)
               [] OTHER -> Logged(<<"error", "warn">>)

\* Candidate lists the tasklet proposes at an epoch.
ResolveCall ==
    /\ \E t \in {EpochOf(2190, 0), EpochOf(2190, 7)}, n \in 0..4,
          outcome \in ResolveOutcomes :
          calc' = [op |-> "resolve", t |-> t, candidates |-> n,
                   outcome |-> outcome, r |-> OnCandidates(outcome)]
    /\ UNCHANGED <<ephVars, cacheVars, taskVars>>

---------------------------------------------------------------------------
(* NTRIPInfos::from_str.  A string is the sequence of its characters. *)

UserPrefix == <<"u", "s", "e", "r", "=">>
PasswordPrefix == <<"p", "a", "s", "s", "w", "o", "r", "d", "=">>

DecimalDigits == <<"0", "1", "2", "3", "4", "5", "6", "7", "8", "9">>
DigitValue(c) == FindFirst({d \in 1..Len(DecimalDigits) : DecimalDigits[d] = c}) - 1
IsDigit(c) == \E d \in 1..Len(DecimalDigits) : DecimalDigits[d] = c

U16Max == 65535

\* str::split(sep): the pieces between the separators, empty ones included.
RECURSIVE SplitOn(_, _)
SplitOn(s, sep) ==
    LET i == FindFirst({n \in 1..Len(s) : s[n] = sep})
    IN  IF i = 0 THEN <<s>>
        ELSE <<SubSeq(s, 1, i - 1)>> \o SplitOn(SubSeq(s, i + 1, Len(s)), sep)

\* str::trim()
RECURSIVE Trim(_)
Trim(s) ==
    IF s # <<>> /\ Head(s) = " " THEN Trim(Tail(s))
    ELSE IF s # <<>> /\ s[Len(s)] = " " THEN Trim(SubSeq(s, 1, Len(s) - 1))
    ELSE s

\* str::starts_with(prefix)
StartsWith(s, prefix) ==
    Len(s) >= Len(prefix) /\ SubSeq(s, 1, Len(prefix)) = prefix

RECURSIVE DecimalValue(_)
DecimalValue(s) ==
    IF s = <<>> THEN 0
    ELSE 10 * DecimalValue(SubSeq(s, 1, Len(s) - 1)) + DigitValue(s[Len(s)])

\* str::parse::<u16>(): decimal digits after an optional '+', at most
\* u16::MAX.  Strings of more than five digits are outside the inputs.
ParseU16(s) ==
    LET d == IF s # <<>> /\ Head(s) = "+" THEN Tail(s) ELSE s
    IN  IF d # <<>> /\ Len(d) <= 5 /\ (\A n \in 1..Len(d) : IsDigit(d[n]))
            /\ DecimalValue(d) <= U16Max
        THEN Some(DecimalValue(d))
        ELSE None

\* index == 0: host[:port]; a third part panics.
NtripHostPort(item) ==
    LET subs == SplitOn(item, ":")
    IN  IF Len(subs) > 2 THEN [ok |-> FALSE]
        ELSE [ok |-> TRUE,
              host |-> subs[1],
              port |-> IF Len(subs) = 2 /\ ParseU16(Trim(subs[2])).some
                       THEN ParseU16(Trim(subs[2])).v
                       ELSE 0]

\* index >= 2: the items split on ',' one after the other; acc is
\* [ok, username, password] so far.
RECURSIVE NtripCredentials(_, _)
NtripCredentials(subitems, acc) ==
    IF subitems = <<>> \/ ~acc.ok THEN acc
    ELSE LET subitem == Head(subitems)
         IN  IF StartsWith(subitem, UserPrefix)
             THEN NtripCredentials(Tail(subitems),
                                   [acc EXCEPT !.username = Some(Trim(subitem))])
             ELSE IF StartsWith(subitem, PasswordPrefix)
             THEN NtripCredentials(Tail(subitems),
                                   [acc EXCEPT !.password = Some(Trim(subitem))])
             ELSE [acc EXCEPT !.ok = FALSE]

RECURSIVE SplitAll(_, _)
SplitAll(items, sep) ==
    IF items = <<>> THEN <<>>
    ELSE SplitOn(Head(items), sep) \o SplitAll(Tail(items), sep)

\* from_str(s): Ok(NTRIPInfos), or a panic.
from_str(s) ==
    LET items == SplitOn(s, "/")
        first == NtripHostPort(items[1])
        creds == NtripCredentials(SplitAll(SubSeq(items, 3, Len(items)), ","),
                                  [ok |-> TRUE, username |-> None, password |-> None])
    IN  IF ~first.ok \/ ~creds.ok THEN [ok |-> FALSE]
        ELSE [ok |-> TRUE,
              infos |-> [host |-> first.host,
                         port |-> first.port,
                         mount |-> IF Len(items) >= 2 THEN Trim(items[2]) ELSE <<>>,
                         username |-> creds.username,
                         password |-> creds.password]]

\* Descriptions in the two forms of the --ntrip help, and malformed ones.
NtripHosts == {<<"h">>, <<"1", ".", "2">>}
NtripPorts == {80, 2101}
NtripMounts == {<<"M">>}
NtripNames == {<<"n">>, <<"j", "o">>}
NtripPasswords == {<<"p">>, <<"1", "=">>}

\* The decimal digits of a number.
RECURSIVE Decimal(_)
Decimal(n) ==
    IF n < 10 THEN <<DecimalDigits[n + 1]>>
    ELSE Decimal(n \div 10) \o <<DecimalDigits[(n % 10) + 1]>>

Passwordless(host, port, mount) ==
    host \o <<":">> \o Decimal(port) \o <<"/">> \o mount

WithCredentials(host, port, mount, name, pwd) ==
    Passwordless(host, port, mount) \o <<"/">> \o UserPrefix \o name
        \o <<",">> \o PasswordPrefix \o pwd

MalformedDescriptions ==
    {<<"h", ":", "1", ":", "2", "/", "M">>,
     <<"h", ":", "x", "/", "M">>,
     <<"h", ":", " ", "8", "/", " ", "M", " ">>,
     <<"h", ":", "7", "0", "0", "0", "0", "/", "M">>,
     <<"h", ":", "+", "8", "/", "M", "/", "k", "e", "y", "=", "1">>,
     <<"h">>}

NtripParseCall ==
    /\ \/ \E host \in NtripHosts, port \in NtripPorts, mount \in NtripMounts :
             \/ calc' = [op |-> "from_str", form |-> "passwordless",
                         host |-> host, port |-> port, mount |-> mount,
                         r |-> from_str(Passwordless(host, port, mount))]
             \/ \E name \in NtripNames, pwd \in NtripPasswords :
                   calc' = [op |-> "from_str", form |-> "credentials",
                            host |-> host, port |-> port, mount |-> mount,
                            name |-> name, pwd |-> pwd,
                            r |-> from_str(WithCredentials(host, port, mount,
                                                           name, pwd))]
       \/ \E s \in MalformedDescriptions :
             calc' = [op |-> "from_str", form |-> "other", s |-> s,
                      r |-> from_str(s)]
    /\ UNCHANGED <<ephVars, cacheVars, taskVars>>

---------------------------------------------------------------------------
(* Specifications *)

NoHist == [sv |-> 0, subs |-> <<>>, pre_complete |-> FALSE]
NoQuery == [op |-> "none", sv |-> 0, epoch |-> 0, r |-> None, expect |-> None]
NoCalc == [op |-> "none"]

InitCache ==
    /\ kepler_buffer = <<>>
    /\ clock_buffer = <<>>
    /\ pc = "idle"
    /\ pending = None
    /\ latched = [kepler |-> [s \in SVs |-> None], clock |-> [s \in SVs |-> None],
                  rk |-> FALSE, rc |-> FALSE]
    /\ query = NoQuery

Init ==
    /\ eph_buffer = <<>>
    /\ overflow_checks \in BOOLEAN
    /\ panicked = FALSE
    /\ hist = NoHist
    /\ InitCache
    /\ calc = NoCalc
    /\ tasklet = [latest_t |-> EpochOf(0, 0), candidates |-> <<>>,
                  outbox |-> <<>>, reported |-> <<>>, decoded |-> <<>>]

NextEph == Update
SpecEph == Init /\ [][NextEph]_vars

NextEphTrace == TracedUpdate
SpecEphTrace == Init /\ [][NextEphTrace]_vars

NextCache == LatchKepler \/ FinishLatchKepler \/ LatchClock
SpecCache == Init /\ [][NextCache]_vars

NextQuery == LatchKepler \/ FinishLatchKepler \/ QueryOrbit
SpecQuery == Init /\ [][NextQuery]_vars

NextScenario == ScenarioUpdate
SpecScenario == Init /\ [][NextScenario]_vars

NextCalc ==
    \/ WeekNumberCall \/ ClockCorrectionCall \/ KeplerEquationCall \/ RotationCall
    \/ ReadPortCall \/ ProcessCall \/ ResolveCall \/ NtripParseCall
    \/ WaitForAckCall
SpecCalc == Init /\ [][NextCalc]_vars

NextTasklet == Cycle
SpecTasklet == Init /\ [][NextTasklet]_vars

---------------------------------------------------------------------------
(* Properties of the subframe assembler *)

\* The consistency invariant of the data model, stated on the three slots.
SlotsConsistent(eph) ==
    /\ eph.frame1.some /\ eph.frame2.some /\ eph.frame3.some
    /\ eph.frame2.v.iode = eph.frame3.v.iode
    /\ eph.frame1.v.iodc % U8 = eph.frame2.v.iode

SlotOf(eph, tag) ==
    CASE tag = "Eph1" -> eph.frame1
      [] tag = "Eph2" -> eph.frame2
      [] tag = "Eph3" -> eph.frame3

\* C1: the call that yields the snapshot (to_kepler, behind the readiness
\* check) returns one if and only if the three slots are populated,
\* frame2.iode = frame3.iode and the low 8 bits of frame1.iodc = frame2.iode.
C1_ValidateIffConsistent ==
    \A i \in 1..Len(eph_buffer) : \A t \in Epochs :
        LET k == to_kepler(eph_buffer[i], t, overflow_checks)
        IN  (k.ok /\ k.r.some) <=> SlotsConsistent(eph_buffer[i])

\* C2: update never fails, and after update(sv, subframe) the slot of the
\* subframe's variant holds exactly that subframe, whatever the state was.
C2_UpdateStoresSubframe ==
    hist.sv # 0 =>
        /\ ~panicked
        /\ LET e == EntryOf(eph_buffer, hist.sv)
               last == hist.subs[Len(hist.subs)]
           IN  e.some /\ SlotOf(e.v, last.tag) = Some(last.f)

C4_ClockIffValidated ==
    \A sv \in SVs : \A t \in Epochs :
        LET c == BufferClockCorrection(eph_buffer, t, sv, overflow_checks)
        IN  (c.ok /\ c.r.some) <=>
                \E i \in 1..Len(eph_buffer) :
                    eph_buffer[i].sv = sv /\ SlotsConsistent(eph_buffer[i])

\* C5: an update on a validated satellite with a subframe that is inconsistent
\* with the other two slots overwrites the slot, and the satellite is not
\* validated afterwards.
C5_InconsistentSubframeInvalidates ==
    (hist.sv # 0 /\ hist.pre_complete) =>
        LET e == EntryOf(eph_buffer, hist.sv)
            last == hist.subs[Len(hist.subs)]
        IN  ~SlotsConsistent(StoreSubframe(e.v, last)) =>
                /\ SlotOf(e.v, last.tag) = Some(last.f)
                /\ ~SlotsConsistent(e.v)

\* C6: once the three subframes of one consistent set have been delivered back
\* to back to a satellite, its slots hold that set and it is validated.
C6_ConsistentSetRecovers ==
    (hist.sv # 0 /\ Len(hist.subs) = 3) =>
        LET e == EntryOf(eph_buffer, hist.sv)
        IN  /\ e.some
            /\ \A k \in 1..3 : SlotOf(e.v, hist.subs[k].tag) = Some(hist.subs[k].f)
            /\ SlotsConsistent(e.v)

\* C29: an accumulator whose state is Invalid or Valid has its three slots
\* populated, frame2.iode = frame3.iode and the low 8 bits of frame1.iodc
\* equal to frame2.iode.
C29_LeftCollectingIsConsistent ==
    \A i \in 1..Len(eph_buffer) :
        eph_buffer[i].state # "Collecting" => SlotsConsistent(eph_buffer[i])

\* C29 witness: one satellite is in state Valid while another one holds three
\* frames that are not consistent.
C29_Witness ==
    \E i \in 1..Len(eph_buffer), j \in 1..Len(eph_buffer) :
        /\ eph_buffer[i].state = "Valid"
        /\ eph_buffer[j].frame1.some /\ eph_buffer[j].frame2.some
        /\ eph_buffer[j].frame3.some /\ ~SlotsConsistent(eph_buffer[j])

---------------------------------------------------------------------------
(* Properties of the satellite state cache *)

EntriesOf(buf, sv) == {i \in 1..Len(buf) : buf[i].sv = sv}

\* C8: in every state of KeplerBuffer and ClockBuffer there is at most one
\* entry per satellite id.
C8_OneEntryPerSatellite ==
    \A sv \in SVs :
        /\ Cardinality(EntriesOf(kepler_buffer, sv)) <= 1
        /\ Cardinality(EntriesOf(clock_buffer, sv)) <= 1

\* C8 witness: both caches hold several satellites and a latch has replaced
\* an entry holding other values in each of them.
C8_Witness ==
    /\ pc = "idle"
    /\ latched.rk /\ latched.rc
    /\ Len(kepler_buffer) >= 2 /\ Len(clock_buffer) >= 2

\* C9: after one or more latches for a satellite id, exactly one entry exists
\* for it, it holds the values of the most recent latch, and a query is
\* computed from those values.
C9_LatchKeepsLatest ==
    \A sv \in SVs :
        /\ (pc = "idle" /\ latched.kepler[sv].some) =>
              /\ Cardinality(EntriesOf(kepler_buffer, sv)) = 1
              /\ \A i \in EntriesOf(kepler_buffer, sv) :
                    kepler_buffer[i] = latched.kepler[sv].v
              /\ \A t \in QueryEpochs :
                    KeplerNextAt(kepler_buffer, t, sv, overflow_checks)
                        = [ok |-> TRUE,
                           r |-> Some([sv_data |-> latched.kepler[sv].v,
                                       t_k |-> TimeFromToe(t, latched.kepler[sv].v.toe)])]
        /\ latched.clock[sv].some =>
              /\ Cardinality(EntriesOf(clock_buffer, sv)) = 1
              /\ \A i \in EntriesOf(clock_buffer, sv) :
                    clock_buffer[i] = latched.clock[sv].v
              /\ ClockBufferCorrection(clock_buffer, sv)
                    = Some([dt |-> latched.clock[sv].v.af0])

\* C9 witness: a satellite has been latched in both caches, after latches
\* that replaced entries holding other values.
C9_Witness ==
    /\ pc = "idle"
    /\ latched.rk /\ latched.rc
    /\ \E sv \in SVs : latched.kepler[sv].some /\ latched.clock[sv].some

C11_QueryIffEntry ==
    \A sv \in SVs :
        /\ \A t \in QueryEpochs :
              LET n == KeplerNextAt(kepler_buffer, t, sv, overflow_checks)
              IN  /\ n.ok
                  /\ n.r.some <=> EntriesOf(kepler_buffer, sv) # {}
                  /\ n.r.some =>
                        \E i \in EntriesOf(kepler_buffer, sv) :
                            n.r.v = [sv_data |-> kepler_buffer[i],
                                     t_k |-> TimeFromToe(t, kepler_buffer[i].toe)]
        /\ LET c == ClockBufferCorrection(clock_buffer, sv)
           IN  /\ c.some <=> EntriesOf(clock_buffer, sv) # {}
               /\ c.some => \E i \in EntriesOf(clock_buffer, sv) :
                                c.v.dt = clock_buffer[i].af0

\* C11 witness: one satellite has an entry in both caches while another one
\* has an entry in neither.
C11_Witness ==
    \E a \in SVs, b \in SVs :
        /\ EntriesOf(kepler_buffer, a) # {} /\ EntriesOf(clock_buffer, a) # {}
        /\ EntriesOf(kepler_buffer, b) = {} /\ EntriesOf(clock_buffer, b) = {}

\* C32: week_number returns a week for every observed week and week field,
\* also for an observed week below the week field, and its subtraction
\* current_week - wn never goes below zero.
C32_WeekNumberTotal ==
    calc.op = "week_number" => calc.out.ok /\ ~calc.wraps

\* C13: t_k of an orbit query is the difference in seconds between the query
\* epoch and the epoch of toe as resolved by toe_gpst (week_number), also
\* when the two lie in different GPS weeks.
C13_ElapsedFromResolvedToe ==
    (query.op = "next_at" /\ query.r.some) =>
        query.r.v.t_k
            = query.epoch
                - KeplerToeGpst(query.r.v.sv_data, query.epoch, overflow_checks).r

\* C18: an orbit query leaves every cache entry and the position of the
\* owning thread unchanged; nothing of the call is retained but its result.
C18_QueryLeavesCache ==
    [][query' # query =>
          /\ kepler_buffer' = kepler_buffer
          /\ clock_buffer' = clock_buffer
          /\ pending' = pending /\ pc' = pc]_vars

\* C18 witness: a query has been answered from an entry, and that entry is
\* still the entry of its satellite.
C18_Witness ==
    /\ query.op = "next_at" /\ query.r.some
    /\ pc = "idle"
    /\ \E i \in EntriesOf(kepler_buffer, query.sv) :
          kepler_buffer[i] = query.r.v.sv_data

EntryValues(buf, sv) == {buf[i] : i \in EntriesOf(buf, sv)}

\* C31: a step of a latch for one satellite leaves the entries of every other
\* satellite as they are in both caches; the latch of a satellite ends with
\* that satellite answering queries; no step takes a satellite out of the
\* clock cache.
C31_LatchLeavesOthers ==
    [][\A sv \in SVs :
          /\ ((pc = "latch_push" => pending.v.sv # sv)
                 /\ (pc' = "latch_push" => pending'.v.sv # sv)) =>
                EntryValues(kepler_buffer', sv) = EntryValues(kepler_buffer, sv)
          /\ (pc = "latch_push" /\ pending.v.sv = sv) =>
                \A t \in QueryEpochs :
                    KeplerNextAt(kepler_buffer', t, sv, overflow_checks).r.some
          /\ ClockBufferCorrection(clock_buffer, sv).some =>
                ClockBufferCorrection(clock_buffer', sv).some
          /\ latched'.clock[sv] = latched.clock[sv] =>
                EntryValues(clock_buffer', sv) = EntryValues(clock_buffer, sv)]_vars

\* C31 witness: while the latch of one satellite is between its two
\* statements, another satellite has its entry in both caches, and the
\* satellite being latched had been latched before.
C31_Witness ==
    /\ pc = "latch_push"
    /\ latched.kepler[pending.v.sv].some
    /\ \E sv \in SVs :
          /\ sv # pending.v.sv
          /\ EntriesOf(kepler_buffer, sv) # {}
          /\ EntriesOf(clock_buffer, sv) # {}
          /\ EntriesOf(clock_buffer, pending.v.sv) # {}

---------------------------------------------------------------------------
(* Properties of the computations *)

Abs(x) == IF x < 0 THEN -x ELSE x

\* Multiples of 1024 added to the week field.
WeekShifts == -1..3

\* C12: week_number returns, for every observed week and week field, the
\* candidate wn + 1024 * k nearest to the observed week; the result is
\* congruent to the week field modulo 1024.
C12_NearestWeek ==
    calc.op = "week_number" =>
        /\ calc.out.ok
        /\ calc.out.week % WeekModulus = calc.wn
        /\ \A k \in WeekShifts :
              Abs(calc.observed - calc.out.week)
                  <= Abs(calc.observed - (calc.wn + WeekModulus * k))

\* dt <- af0 + af1 * dt + af2 * dt^2, n times
RECURSIVE AssignPolynomial(_, _, _, _, _)
AssignPolynomial(a0, a1, a2, dt, n) ==
    IF n = 0 THEN dt
    ELSE AssignPolynomial(a0, a1, a2, ClockPolynomial(a0, a1, a2, dt), n - 1)

\* C14: the clock correction of a validated ephemeris at t is the value of
\* dt after seeding dt = t - toc and assigning dt <- af0 + af1*dt + af2*dt^2
\* ten times.
C14_ClockIsTenAssignments ==
    (calc.op = "clock_correction" /\ SlotsConsistent(calc.eph)) =>
        /\ calc.out.ok /\ calc.out.r.some
        /\ LET f == calc.eph.frame1.v
               toc == toc_gpst(calc.eph, calc.t, overflow_checks).r.v
           IN  calc.out.r.v.dt
                   = AssignPolynomial(f.af0_s, f.af1_s_s, f.af2_s_s2, calc.t - toc, 10)

\* C15: the clock correction of a validated ephemeris at t = toc is af0 (the
\* values of the model are whole units, the tolerance is below one unit).
C15_ClockAtTocIsAf0 ==
    (calc.op = "clock_correction" /\ SlotsConsistent(calc.eph)
        /\ toc_gpst(calc.eph, calc.t, overflow_checks) = [ok |-> TRUE, r |-> Some(calc.t)]) =>
            /\ calc.out.ok /\ calc.out.r.some
            /\ calc.out.r.v.dt = calc.eph.frame1.v.af0_s

\* The last two iterates of the Kepler equation differ.
Unconverged(m, e) ==
    KeplerIterate(m, e, 0, KeplerIterations) # KeplerIterate(m, e, 0, KeplerIterations - 1)

\* C17: when the iteration of the Kepler equation ends at its cap with the
\* last two iterates still apart, the query does not return an ordinary
\* position.
C17_NonConvergenceReported ==
    (calc.op = "kepler_equation" /\ Unconverged(calc.m, calc.e)) => ~calc.out.some

\* C19: the position is (x_orb, y_orb, 0) rotated by i about the x axis, then
\* by Omega about the z axis, in km.
C19_RotationToEarthFixed ==
    calc.op = "rotation" =>
        LET x_orb == calc.x_orb
            y_orb == calc.y_orb
            x == x_orb * Cos4(calc.omega) - y_orb * Cos4(calc.i) * Sin4(calc.omega)
            y == x_orb * Sin4(calc.omega) + y_orb * Cos4(calc.i) * Cos4(calc.omega)
            z == y_orb * Sin4(calc.i)
        IN  calc.out = [x_km |-> x \div 1000, y_km |-> y \div 1000, z_km |-> z \div 1000]

---------------------------------------------------------------------------
(* Properties of the assembler fed with one ephemeris set *)

\* C16: once a satellite holds Frame1{week = 2190, toc = 0, af0 = 1.0e-5},
\* Frame2{iode = 5, toe = 0} and Frame3{iode = 5}, the snapshot is returned,
\* the clock correction at toc is af0, and the orbit is computed from that
\* snapshot at t_k = 0.
C16_EndToEnd ==
    \A i \in 1..Len(eph_buffer) :
        LET e == eph_buffer[i]
            t == EpochOf(2190, 0)
            k == to_kepler(e, t, overflow_checks)
            c == BufferClockCorrection(eph_buffer, t, e.sv, overflow_checks)
        IN  (e.frame1.some /\ e.frame2.some /\ e.frame3.some) =>
                /\ k.ok /\ k.r.some
                /\ c.ok /\ c.r.some /\ c.r.v.dt = e.frame1.v.af0_s
                /\ LET n == KeplerNextAt(<<k.r.v>>, t, e.sv, overflow_checks)
                   IN  n.ok /\ n.r.some /\ n.r.v.t_k = 0

\* Two accumulators hold the same frames but for the group delay.
DiffersOnlyInGroupDelay(a, b) ==
    /\ a.frame1.some /\ b.frame1.some
    /\ a.frame1.v.tgd_s # b.frame1.v.tgd_s
    /\ [a.frame1.v EXCEPT !.tgd_s = 0] = [b.frame1.v EXCEPT !.tgd_s = 0]
    /\ a.frame2 = b.frame2 /\ a.frame3 = b.frame3

PopulatedSlots(eph) == {tag \in {"Eph1", "Eph2", "Eph3"} : SlotOf(eph, tag).some}

\* C24: update(t, sv, subframe) on a buffer without an accumulator for sv
\* appends one that holds the subframe in its slot and nothing else; in every
\* case the accumulators present before are still there, in place, and the
\* buffer holds exactly one accumulator per satellite.
C24_OneAccumulatorPerSatellite ==
    /\ \A sv \in SVs : Cardinality(EntriesOf(eph_buffer, sv)) <= 1
    /\ \A sv \in SVs, subframe \in ScenarioSubframes, t \in ScenarioEpochs :
          LET u == BufferUpdate(eph_buffer, t, sv, subframe, overflow_checks)
          IN  /\ Cardinality(EntriesOf(u.buf, sv)) = 1
              /\ Len(u.buf) >= Len(eph_buffer)
              /\ \A i \in 1..Len(eph_buffer) : u.buf[i].sv = eph_buffer[i].sv
              /\ EntriesOf(eph_buffer, sv) = {} =>
                    /\ u.ok
                    /\ Len(u.buf) = Len(eph_buffer) + 1
                    /\ u.buf[Len(u.buf)].state = "Collecting"
                    /\ PopulatedSlots(u.buf[Len(u.buf)]) = {subframe.tag}
                    /\ SlotOf(u.buf[Len(u.buf)], subframe.tag) = Some(subframe.f)
              /\ EntriesOf(eph_buffer, sv) # {} => Len(u.buf) = Len(eph_buffer)

\* C24 witness: every satellite has an accumulator, one of them validated
\* and one of them still with a single slot.
C24_Witness ==
    /\ \A sv \in SVs : EntriesOf(eph_buffer, sv) # {}
    /\ \E i \in 1..Len(eph_buffer) : eph_buffer[i].state = "Valid"
    /\ \E i \in 1..Len(eph_buffer) : Cardinality(PopulatedSlots(eph_buffer[i])) = 1

\* C28: update(t, sv, subframe) leaves the two slots of the other variants
\* of sv as they are, and every accumulator of another satellite as it is.
C28_UpdateLeavesTheRest ==
    \A sv \in SVs, subframe \in ScenarioSubframes, t \in ScenarioEpochs :
        LET u == BufferUpdate(eph_buffer, t, sv, subframe, overflow_checks)
        IN  \A i \in 1..Len(eph_buffer) :
                IF eph_buffer[i].sv = sv
                THEN \A tag \in {"Eph1", "Eph2", "Eph3"} \ {subframe.tag} :
                         SlotOf(u.buf[i], tag) = SlotOf(eph_buffer[i], tag)
                ELSE u.buf[i] = eph_buffer[i]

\* C28 witness: one satellite holds two slots and is still collecting, while
\* another satellite is validated.
C28_Witness ==
    \E i \in 1..Len(eph_buffer), j \in 1..Len(eph_buffer) :
        /\ eph_buffer[i].state = "Collecting"
        /\ Cardinality(PopulatedSlots(eph_buffer[i])) = 2
        /\ eph_buffer[j].state = "Valid"

\* C30: an update takes an accumulator to Valid only from Invalid and only
\* at t later than the epoch of toe; from Collecting it never does, and from
\* Invalid at t not later than toe the accumulator stays Invalid.
C30_ValidOnlyAfterToe ==
    \A i \in 1..Len(eph_buffer) :
        \A subframe \in ScenarioSubframes, t \in ScenarioEpochs :
            LET e == eph_buffer[i]
                u == GpsUpdate(e, t, subframe, overflow_checks)
                toe == toe_gpst(e, t, overflow_checks)
            IN  u.ok =>
                    /\ (u.eph.state = "Valid" /\ e.state # "Valid") =>
                          e.state = "Invalid" /\ toe.r.some /\ t > toe.r.v
                    /\ e.state = "Collecting" => u.eph.state # "Valid"
                    /\ (e.state = "Invalid" /\ toe.r.some /\ t <= toe.r.v) =>
                          u.eph.state = "Invalid"

\* C30 witness: one satellite has turned Valid while another one, with the
\* same frames, is still Invalid.
C30_Witness ==
    \E i \in 1..Len(eph_buffer), j \in 1..Len(eph_buffer) :
        eph_buffer[i].state = "Valid" /\ eph_buffer[j].state = "Invalid"

---------------------------------------------------------------------------
(* Properties of the receiver tasklet, the device and the main loop *)

SupportedGnssIds == {0, 1, 2, 3, 5, 6}

\* RAWX packets with an unsupported measurement first, in the middle, last.
ClaimRawxPackets ==
    RawxPackets
        \cup {Rawx(7, <<Measurement(7, 3, 19), Measurement(2, 1, 20)>>),
              Rawx(7, <<Measurement(6, 2, 19), Measurement(3, 1, 20),
                        Measurement(9, 1, 21), Measurement(8, 1, 21),
                        Measurement(1, 4, 22), Measurement(255, 1, 23)>>)}

HandlerLocals == TaskletLocals(tasklet.latest_t, eph_buffer, tasklet.candidates)

\* C21: the RAWX handler reports each measurement of a constellation id
\* other than 0, 1, 2, 3, 5, 6 and makes no candidate of it, while every
\* measurement of a supported id in the same packet, before or after it, has
\* its candidate at the packet's epoch.
C21_UnsupportedIsSkipped ==
    \A rawx \in ClaimRawxPackets :
        LET st == OnRawx(HandlerLocals, rawx, overflow_checks)
            ms == rawx.measurements
            unsupported == {k \in 1..Len(ms) : ms[k].gnss_id \notin SupportedGnssIds}
        IN  st.ok =>
                /\ Len(st.reported) = Cardinality(unsupported)
                /\ \A k \in unsupported :
                      /\ \E n \in 1..Len(st.reported) : st.reported[n] = ms[k].gnss_id
                      /\ \A n \in 1..Len(st.candidates) :
                            st.candidates[n].sv.constellation \in
                                {gnss_rtk_id(g).v : g \in SupportedGnssIds}
                /\ \A k \in (1..Len(ms)) \ unsupported :
                      \E n \in 1..Len(st.candidates) :
                          /\ st.candidates[n].sv =
                                SvOf(gnss_rtk_id(ms[k].gnss_id).v, ms[k].sv_id)
                          /\ st.candidates[n].t = EpochOf(rawx.week, rawx.rcv_tow)
                /\ Len(st.candidates) =
                      Cardinality({<<ms[k].gnss_id, ms[k].sv_id>> :
                                      k \in (1..Len(ms)) \ unsupported})

\* C21 witness: a cycle reported the unsupported id 4 and proposed the
\* candidates of the measurements before and after it.
C21_Witness ==
    /\ tasklet.reported = <<4>>
    /\ \E k \in 1..Len(tasklet.outbox) :
          /\ tasklet.outbox[k].msg.type = "Proposal"
          /\ Len(tasklet.outbox[k].msg.candidates) = 2

Messages(outbox) == [k \in 1..Len(outbox) |-> outbox[k].msg]

C23_NothingFatal ==
    calc.op = "resolve" =>
        /\ ~calc.r.panicked
        /\ ~calc.outcome.ok => calc.r.logged # <<>>

\* C25: at the end of a cycle the sends of the cycle hold a Kepler message
\* with the elements of the three frames of each validated satellite, and
\* none for a satellite that is not validated.
C25_ValidatedIsLatched ==
    ~panicked =>
        \A i \in 1..Len(eph_buffer) :
            LET eph == eph_buffer[i]
                sent == {k \in 1..Len(tasklet.outbox) :
                            /\ tasklet.outbox[k].msg.type = "Kepler"
                            /\ tasklet.outbox[k].msg.kepler.sv = eph.sv}
            IN  IF validate(eph).some
                THEN \E k \in sent :
                        tasklet.outbox[k].msg.kepler =
                            from_gps(eph.sv, eph.frame1.v, eph.frame2.v, eph.frame3.v)
                ELSE sent = {}

\* The first read of a run that ends process: an error, or no bytes.
FirstStop(reads) ==
    FindFirst({n \in 1..Len(reads) : ~reads[n].ok \/ reads[n].v = 0})

\* C26: read_port gives Ok(0) for an error of kind TimedOut, the byte count
\* for a successful read and the error itself for any other error; process
\* returns that error to its caller, and Ok otherwise.
C26_TimeoutIsNoData ==
    /\ calc.op = "read_port" =>
          LET res == calc.res
          IN  /\ res.ok => calc.r = Ok(res.v)
              /\ (~res.ok /\ res.e.kind = "TimedOut") => calc.r = Ok(0)
              /\ (~res.ok /\ res.e.kind # "TimedOut") => calc.r = Err(res.e)
    /\ calc.op = "process" =>
          LET k == FirstStop(calc.reads)
          IN  IF k # 0 /\ ~calc.reads[k].ok /\ calc.reads[k].e.kind # "TimedOut"
              THEN ~calc.r.ok /\ calc.r.e = calc.reads[k].e
              ELSE calc.r.ok

\* C26 witness: process returned the error of the second read after handing
\* over the packets of the first.
C26_Witness ==
    /\ calc.op = "process"
    /\ ~calc.r.ok
    /\ calc.r.e.kind = "BrokenPipe"
    /\ calc.r.handled # <<>>

\* C27: host:port/mount/user=NAME,password=PWD parses to host, the number
\* port, mount, username NAME and password PWD; host:port/mount parses to
\* the same host, port and mount without username and password.
C27_NtripDescription ==
    /\ (calc.op = "from_str" /\ calc.form = "credentials") =>
          /\ calc.r.ok
          /\ calc.r.infos = [host |-> calc.host, port |-> calc.port,
                             mount |-> calc.mount, username |-> Some(calc.name),
                             password |-> Some(calc.pwd)]
    /\ (calc.op = "from_str" /\ calc.form = "passwordless") =>
          /\ calc.r.ok
          /\ calc.r.infos = [host |-> calc.host, port |-> calc.port,
                             mount |-> calc.mount, username |-> None,
                             password |-> None]

DistinctSatellites(candidates) ==
    \A i \in 1..Len(candidates), j \in 1..Len(candidates) :
        candidates[i].sv = candidates[j].sv => i = j

\* The pseudo range of the last measurement of satellite sv among ms.
LastPseudoRange(ms, sv) ==
    LET of_sv == {k \in 1..Len(ms) :
                    /\ gnss_rtk_id(ms[k].gnss_id).some
                    /\ SvOf(gnss_rtk_id(ms[k].gnss_id).v, ms[k].sv_id) = sv}
    IN  ms[CHOOSE k \in of_sv : \A l \in of_sv : l <= k].pr_mes

\* C33: during and after the handling of a RAWX packet, whatever packet was
\* handled before it, the candidate list has one candidate per satellite, all
\* at the epoch of the packet, each with the pseudo range of the most recent
\* measurement of its satellite; the list is the one built from an empty
\* list.  Between cycles the list has one candidate per satellite.
C33_OneCandidatePerSatellite ==
    /\ DistinctSatellites(tasklet.candidates)
    /\ \A p \in RawxPackets, q \in ClaimRawxPackets :
          LET first == OnRawx(HandlerLocals, p, overflow_checks)
          IN  first.ok =>
                \A n \in 0..Len(q.measurements) :
                    LET part == [q EXCEPT !.measurements = SubSeq(@, 1, n)]
                        st == OnRawx(first, part, overflow_checks)
                    IN  st.ok =>
                          /\ DistinctSatellites(st.candidates)
                          /\ \A i \in 1..Len(st.candidates) :
                                /\ st.candidates[i].t = EpochOf(q.week, q.rcv_tow)
                                /\ st.candidates[i].pr =
                                      LastPseudoRange(part.measurements,
                                                      st.candidates[i].sv)
                          /\ st.candidates =
                                OnRawx(HandlerLocals, part, overflow_checks).candidates

\* C33 witness: a cycle proposed the one candidate of a packet with two
\* measurements of the same satellite, with the later pseudo range.
C33_Witness ==
    \E k \in 1..Len(tasklet.outbox) :
        /\ tasklet.outbox[k].msg.type = "Proposal"
        /\ Len(tasklet.outbox[k].msg.candidates) = 1
        /\ tasklet.outbox[k].msg.candidates[1].pr = 23
        /\ tasklet.outbox[k].msg.candidates[1].t = EpochOf(2190, 7)

Proposals(outbox) == {k \in 1..Len(outbox) : outbox[k].msg.type = "Proposal"}

\* C34: at the end of a cycle, for each RAWX packet decoded in it that has a
\* measurement of a supported constellation, the cycle has sent a Proposal
\* whose candidates are at the epoch of that packet.
C34_EveryRawxProposed ==
    ~panicked =>
        \A k \in 1..Len(tasklet.decoded) :
            (tasklet.decoded[k].kind = "RxmRawx" /\ tasklet.decoded[k].supported) =>
                \E j \in Proposals(tasklet.outbox) :
                    LET candidates == tasklet.outbox[j].msg.candidates
                    IN  /\ candidates # <<>>
                        /\ \A i \in 1..Len(candidates) :
                              candidates[i].t = tasklet.decoded[k].t

\* C35: no Proposal of a cycle has an empty candidate list; a cycle that sent
\* a Proposal, delivered or not, ends with an empty candidate list; and a
\* following cycle that decodes no RAWX packet sends no Proposal.
C35_ProposedOnce ==
    /\ \A k \in Proposals(tasklet.outbox) :
          tasklet.outbox[k].msg.candidates # <<>>
    /\ (~panicked /\ Proposals(tasklet.outbox) # {}) => tasklet.candidates = <<>>
    /\ ~panicked =>
          \A reads \in TaskletReads, failed \in SendFailures :
              LET handled == process(reads, <<>>).handled
                  st == TaskletCycle(HandlerLocals, reads, failed, overflow_checks)
              IN  (\A k \in 1..Len(handled) : handled[k].kind # "RxmRawx") =>
                      Proposals(st.outbox) = {}

\* C35 witness: a cycle decoded a RAWX packet, its Proposal was not
\* delivered, and the candidate list is empty.
C35_Witness ==
    /\ ~panicked
    /\ tasklet.candidates = <<>>
    /\ \E k \in 1..Len(tasklet.decoded) : tasklet.decoded[k].kind = "RxmRawx"
    /\ \E k \in Proposals(tasklet.outbox) : ~tasklet.outbox[k].delivered

\* Constellation ids of SFRBX packets: the known ones and unknown ones.
ClaimGnssIds == {0, 1, 2, 3, 4, 5, 6, 7, 255}
ClaimInterpreted == {None} \cup {Some(f) : f \in TaskletSubframes}

\* C36: the accumulators are those of GPS and QZSS satellites, and the SFRBX
\* handler leaves the ephemeris buffer as it is for a packet of any other
\* constellation id, known or not, and for a packet that is not interpreted.
C36_OnlyGpsQzssSubframes ==
    /\ \A i \in 1..Len(eph_buffer) :
          eph_buffer[i].sv.constellation \in {"GPS", "QZSS"}
    /\ \A g \in ClaimGnssIds, f \in ClaimInterpreted :
          LET st == OnSfrbx(HandlerLocals, Sfrbx(g, 1, f), overflow_checks)
          IN  (g \notin {0, 5} \/ ~f.some) =>
                  st.ok /\ st.eph_buffer = eph_buffer

\* C36 witness: a cycle decoded an interpreted SFRBX packet of Galileo while
\* the buffer holds accumulators of GPS and of QZSS.
C36_Witness ==
    /\ ~panicked
    /\ \E k \in 1..Len(tasklet.decoded) :
          /\ tasklet.decoded[k].kind = "RxmSfrbx"
          /\ tasklet.decoded[k].gnss_id = 2
          /\ tasklet.decoded[k].interpreted
    /\ \E i \in 1..Len(eph_buffer), j \in 1..Len(eph_buffer) :
          /\ eph_buffer[i].sv.constellation = "GPS"
          /\ eph_buffer[j].sv.constellation = "QZSS"

\* The items of the reads that process consumes: those before the read that
\* ends it.
RECURSIVE ItemsOf(_, _)
ItemsOf(reads, n) ==
    IF n = 0 THEN <<>> ELSE ItemsOf(reads, n - 1) \o reads[n].items
Consumed(reads) ==
    ItemsOf(reads, IF FirstStop(reads) = 0 THEN Len(reads) ELSE FirstStop(reads) - 1)

\* The position in items of its j-th well-formed item.
NthWellFormed(items, j) ==
    CHOOSE i \in 1..Len(items) :
        items[i].wf /\ Cardinality({l \in 1..i : items[l].wf}) = j

\* C38: process hands the handler every well-formed packet of the bytes it
\* reads, in stream order, whatever malformed packets lie between them, and
\* a malformed packet does not make it return an error: it returns Ok unless
\* a read fails with an error other than a timeout.
C38_MalformedIsIgnored ==
    calc.op = "process" =>
        LET items == Consumed(calc.reads)
            k == FirstStop(calc.reads)
            good == {i \in 1..Len(items) : items[i].wf}
        IN  /\ Len(calc.r.handled) = Cardinality(good)
            /\ \A j \in 1..Cardinality(good) :
                  calc.r.handled[j] = items[NthWellFormed(items, j)].packet
            /\ (k = 0 \/ calc.reads[k].ok \/ calc.reads[k].e.kind = "TimedOut") =>
                  calc.r.ok

\* C38 witness: process returned Ok after two reads with a malformed packet
\* between well-formed ones in each, all four packets handed over in order.
C38_Witness ==
    /\ calc.op = "process"
    /\ calc.r.ok
    /\ calc.r.handled = <<InfNotice, MonVer, InfNotice, MonVer>>

\* C37: wait_for_ack returns Ok only after an AckAck packet with the class
\* and the message id of the awaited message type has been received; an
\* acknowledgement of another message does not end the wait.
C37_OkOnlyAfterAck ==
    (calc.op = "wait_for_ack" /\ calc.r.returned /\ calc.r.ok) =>
        \E k \in 1..Len(calc.cycles) :
            \E n \in 1..Len(calc.cycles[k].reads) :
                /\ calc.cycles[k].reads[n].ok
                /\ \E i \in 1..Len(calc.cycles[k].reads[n].items) :
                      calc.cycles[k].reads[n].items[i] =
                          Parsed(AckAck(calc.T.class, calc.T.id))

====
